---- MODULE Spec2Model ----
(***************************************************************************)
(* Model of the PHI enforcement subsystem of the NICU shift tracker:       *)
(* the Cloud Functions (PHI_PATTERNS, detectPHI, scanForPHI,               *)
(* validateBabyData, validateBabyDataUpdate, generateShiftSummary) and the *)
(* client accessors of firebase-helpers-v2.js that write the documents     *)
(* those functions are triggered by.                                       *)
(***************************************************************************)
EXTENDS Integers, Sequences, FiniteSets, TLC

(***************************************************************************)
(* JavaScript values.  A value is a tagged record: a string, a number, a   *)
(* boolean, null, a server timestamp, an array (ordered list) or an object *)
(* (entries <<key, value>> in insertion order, as Object.entries yields    *)
(* them).                                                                  *)
(***************************************************************************)
Str(s) == [t |-> "str", v |-> s]
Num(n) == [t |-> "num", v |-> n]
Bool(b) == [t |-> "bool", v |-> b]
Null == [t |-> "null"]
Ts(n) == [t |-> "ts", v |-> n]
Arr(items) == [t |-> "arr", v |-> items]
Obj(entries) == [t |-> "obj", v |-> entries]
Undefined == [t |-> "undef"]

\* obj[key] of JavaScript: the value of the entry, or undefined.
HasKey(o, key) == \E i \in 1..Len(o.v) : o.v[i][1] = key
Get(o, key) ==
  IF o.t = "obj" /\ HasKey(o, key)
  THEN o.v[CHOOSE i \in 1..Len(o.v) : o.v[i][1] = key][2]
  ELSE Undefined

\* { ...o, key: val }: an existing key keeps its place, a new one is appended.
Put(o, key, val) ==
  IF HasKey(o, key)
  THEN Obj([i \in 1..Len(o.v) |-> IF o.v[i][1] = key THEN <<key, val>> ELSE o.v[i]])
  ELSE Obj(Append(o.v, <<key, val>>))

RECURSIVE PutAll(_, _, _)
\* { ...o, ...p }: the entries of p from the k-th on, put into o in order.
PutAll(o, p, k) ==
  IF k > Len(p.v) THEN o ELSE PutAll(Put(o, p.v[k][1], p.v[k][2]), p, k + 1)

\* Truthiness of a JavaScript value (the `!x` and `x || y` tests).
Truthy(x) ==
  CASE x.t = "undef" -> FALSE
    [] x.t = "null" -> FALSE
    [] x.t = "str" -> Len(x.v) > 0
    [] x.t = "num" -> x.v # 0
    [] x.t = "bool" -> x.v
    [] OTHER -> TRUE

(***************************************************************************)
(* Characters and regular expressions.  A string is a TLA+ string; its     *)
(* i-th character is SubSeq(s, i, i).                                      *)
(***************************************************************************)
UpperAlphabet == "ABCDEFGHIJKLMNOPQRSTUVWXYZ"
LowerAlphabet == "abcdefghijklmnopqrstuvwxyz"
DigitAlphabet == "0123456789"
CharsOf(s) == {SubSeq(s, i, i) : i \in 1..Len(s)}
Upper == CharsOf(UpperAlphabet)
Lower == CharsOf(LowerAlphabet)
Digit == CharsOf(DigitAlphabet)
Space == {" ", "\t", "\n", "\r", "\f"}
WordChar == Upper \cup Lower \cup Digit \cup {"_"}

Ch(s, i) == SubSeq(s, i, i)

LowerOf(c) ==
  IF c \in Upper
  THEN Ch(LowerAlphabet, CHOOSE i \in 1..Len(UpperAlphabet) : Ch(UpperAlphabet, i) = c)
  ELSE c
UpperOf(c) ==
  IF c \in Lower
  THEN Ch(UpperAlphabet, CHOOSE i \in 1..Len(LowerAlphabet) : Ch(LowerAlphabet, i) = c)
  ELSE c

RECURSIVE toLowerCase(_)
toLowerCase(s) ==
  IF Len(s) = 0 THEN "" ELSE LowerOf(Ch(s, 1)) \o toLowerCase(SubSeq(s, 2, Len(s)))

\* s.includes(w)
includes(s, w) ==
  \E i \in 1..(Len(s) - Len(w) + 1) : SubSeq(s, i, i + Len(w) - 1) = w
\* s.startsWith(w)
startsWith(s, w) == Len(s) >= Len(w) /\ SubSeq(s, 1, Len(w)) = w
\* s.substring(0, n)
substring0(s, n) == SubSeq(s, 1, IF Len(s) < n THEN Len(s) ELSE n)

\* Regular-expression syntax trees.
Unbounded == 0 - 1
Cls(set) == [k |-> "set", s |-> set]
Cat(nodes) == [k |-> "seq", a |-> nodes]
Alt(nodes) == [k |-> "alt", a |-> nodes]
Rep(r, lo, hi) == [k |-> "rep", r |-> r, lo |-> lo, hi |-> hi]
WordB == [k |-> "wb"]
NotAhead(r) == [k |-> "nla", r |-> r]
\* The i flag: a class matches both cases of its letters.
CI(set) == set \cup {LowerOf(c) : c \in set} \cup {UpperOf(c) : c \in set}
\* A literal word, case-sensitive or (i flag) case-insensitive.
Lit(w) == Cat([i \in 1..Len(w) |-> Cls({Ch(w, i)})])
LitI(w) == Cat([i \in 1..Len(w) |-> Cls(CI({Ch(w, i)}))])
Opt(r) == Rep(r, 0, 1)
Star(r) == Rep(r, 0, Unbounded)
Plus(r) == Rep(r, 1, Unbounded)

RECURSIVE Flatten(_)
\* The concatenation of a sequence of sequences.
Flatten(ss) == IF Len(ss) = 0 THEN <<>> ELSE Head(ss) \o Flatten(Tail(ss))

RECURSIVE Ends(_, _, _)
RECURSIVE EndsAfter(_, _, _)
RECURSIVE MatchFrom(_, _, _)

\* Ends(re, s, i): the positions at which a match of re starting at position
\* i of s can end (position of the next unread character), in the order in
\* which a backtracking matcher tries them (greedy first).
Ends(re, s, i) ==
  CASE re.k = "set" ->
         IF i <= Len(s) /\ Ch(s, i) \in re.s THEN <<i + 1>> ELSE <<>>
    [] re.k = "seq" ->
         IF Len(re.a) = 0 THEN <<i>>
         ELSE EndsAfter(Ends(Head(re.a), s, i), Cat(Tail(re.a)), s)
    [] re.k = "alt" ->
         Flatten([n \in 1..Len(re.a) |-> Ends(re.a[n], s, i)])
    [] re.k = "rep" ->
         \* greedy: one more iteration is tried before stopping
         (IF re.hi = 0 THEN <<>>
          ELSE EndsAfter(SelectSeq(Ends(re.r, s, i), LAMBDA j : j > i),
                         Rep(re.r, IF re.lo > 0 THEN re.lo - 1 ELSE 0,
                             IF re.hi = Unbounded THEN Unbounded ELSE re.hi - 1), s))
         \o (IF re.lo = 0 THEN <<i>> ELSE <<>>)
    [] re.k = "wb" ->
         IF (i > 1 /\ Ch(s, i - 1) \in WordChar) # (i <= Len(s) /\ Ch(s, i) \in WordChar)
         THEN <<i>> ELSE <<>>
    [] re.k = "nla" -> IF Ends(re.r, s, i) = <<>> THEN <<i>> ELSE <<>>

\* The ends of the matches of re that start at the positions js, in order.
EndsAfter(js, re, s) == Flatten([n \in 1..Len(js) |-> Ends(re, s, js[n])])

\* The match found at position i, whose possible ends are e, and the later
\* ones; the search moves on by one position when there is none at i.
MatchAt(re, s, i, e) ==
  IF Len(e) = 0 THEN MatchFrom(re, s, i + 1)
  ELSE <<SubSeq(s, i, e[1] - 1)>> \o MatchFrom(re, s, IF e[1] > i THEN e[1] ELSE i + 1)

\* text.match(pattern) with the g flag: the matched substrings, left to
\* right, each search resuming where the previous match ended.
MatchFrom(re, s, i) ==
  IF i > Len(s) + 1 THEN <<>> ELSE MatchAt(re, s, i, Ends(re, s, i))

match(s, re) == MatchFrom(re, s, 1)

(***************************************************************************)
(* PHI_PATTERNS, in the order Object.entries yields them.                  *)
(***************************************************************************)
Sp == Cls(Space)
Dg == Cls(Digit)
Letter == Upper \cup Lower

\* /\b[A-Z][a-z]{2,}\s+[A-Z][a-z]{2,}\b/g
fullName ==
  Cat(<<WordB, Cls(Upper), Rep(Cls(Lower), 2, Unbounded), Plus(Sp),
        Cls(Upper), Rep(Cls(Lower), 2, Unbounded), WordB>>)

\* /\b(MRN|mrn|#|medical\s*record)\s*:?\s*\d{6,}/gi
mrn ==
  Cat(<<WordB,
        Alt(<<LitI("MRN"), LitI("mrn"), Lit("#"),
              Cat(<<LitI("medical"), Star(Sp), LitI("record")>>)>>),
        Star(Sp), Opt(Cls({":"})), Star(Sp), Rep(Dg, 6, Unbounded)>>)

\* /\b(DOB|dob|born|birth|birthday)\s*:?\s*\d{1,2}[\/\-]\d{1,2}[\/\-]\d{2,4}/gi
dob ==
  Cat(<<WordB,
        Alt(<<LitI("DOB"), LitI("dob"), LitI("born"), LitI("birth"), LitI("birthday")>>),
        Star(Sp), Opt(Cls({":"})), Star(Sp),
        Rep(Dg, 1, 2), Cls({"/", "-"}), Rep(Dg, 1, 2), Cls({"/", "-"}), Rep(Dg, 2, 4)>>)

\* /\b\d{3}[-\s]?\d{2}[-\s]?\d{4}\b/g
ssn ==
  Cat(<<WordB, Rep(Dg, 3, 3), Opt(Cls({"-"} \cup Space)), Rep(Dg, 2, 2),
        Opt(Cls({"-"} \cup Space)), Rep(Dg, 4, 4), WordB>>)

\* /\b\d{3}[-\.\s]?\d{3}[-\.\s]?\d{4}\b/g
phone ==
  Cat(<<WordB, Rep(Dg, 3, 3), Opt(Cls({"-", "."} \cup Space)), Rep(Dg, 3, 3),
        Opt(Cls({"-", "."} \cup Space)), Rep(Dg, 4, 4), WordB>>)

\* /\b[a-zA-Z0-9._%+-]+@(?!(hospital|healthsystem|medical|nicu))[a-zA-Z0-9.-]+\.[a-zA-Z]{2,}\b/gi
personalEmail ==
  Cat(<<WordB, Plus(Cls(Letter \cup Digit \cup {".", "_", "%", "+", "-"})), Cls({"@"}),
        NotAhead(Alt(<<LitI("hospital"), LitI("healthsystem"), LitI("medical"), LitI("nicu")>>)),
        Plus(Cls(Letter \cup Digit \cup {".", "-"})), Cls({"."}),
        Rep(Cls(Letter), 2, Unbounded), WordB>>)

\* /\b(January|...|December)\s+\d{1,2},?\s+\d{4}\b/gi
exactDate ==
  Cat(<<WordB,
        Alt(<<LitI("January"), LitI("February"), LitI("March"), LitI("April"),
              LitI("May"), LitI("June"), LitI("July"), LitI("August"),
              LitI("September"), LitI("October"), LitI("November"), LitI("December")>>),
        Plus(Sp), Rep(Dg, 1, 2), Opt(Cls({","})), Plus(Sp), Rep(Dg, 4, 4), WordB>>)

\* /\b\d+\s+[A-Z][a-z]+\s+(Street|St|Avenue|Ave|Road|Rd|Boulevard|Blvd|Lane|Ln|Drive|Dr|Court|Ct|Way)\b/gi
address ==
  Cat(<<WordB, Plus(Dg), Plus(Sp), Cls(CI(Upper)), Plus(Cls(CI(Lower))), Plus(Sp),
        Alt(<<LitI("Street"), LitI("St"), LitI("Avenue"), LitI("Ave"), LitI("Road"),
              LitI("Rd"), LitI("Boulevard"), LitI("Blvd"), LitI("Lane"), LitI("Ln"),
              LitI("Drive"), LitI("Dr"), LitI("Court"), LitI("Ct"), LitI("Way")>>),
        WordB>>)

PHI_PATTERNS ==
  << <<"fullName", fullName>>, <<"mrn", mrn>>, <<"dob", dob>>, <<"ssn", ssn>>,
     <<"phone", phone>>, <<"personalEmail", personalEmail>>,
     <<"exactDate", exactDate>>, <<"address", address>> >>

\* The false-positive filter of the fullName matches (the callback of
\* matches.filter): TRUE for a match that is kept.
keepFullName(m) ==
  LET lower == toLowerCase(m)
  IN /\ ~includes(lower, "room")
     /\ ~includes(lower, "blood")
     /\ ~includes(lower, "heart")
     /\ ~startsWith(lower, "baby ")

\* The violation of a pattern whose matches are given: a sequence of zero
\* or one {type, count, sample} records.
violationOf(type, matches, cut) ==
  IF Len(matches) > 0
  THEN <<[type |-> type, count |-> Len(matches),
          sample |-> substring0(matches[1], cut) \o "..."]>>
  ELSE <<>>

\* A faulty loop body that filters the matches of every pattern.
violationsOf_filtersAll(type, matches) ==
  violationOf(type, SelectSeq(matches, keepFullName),
              IF type = "fullName" THEN 15 ELSE 20)

\* The body of the loop over PHI_PATTERNS for one pattern and its matches
\* (none: text.match gave null).
violationsOf(type, matches) ==
  IF Len(matches) = 0 THEN <<>>
  ELSE IF type = "fullName"
       THEN violationOf(type, SelectSeq(matches, keepFullName), 15)
       ELSE violationOf(type, matches, 20)

RECURSIVE violationsFrom_first(_, _, _)
\* A faulty loop over PHI_PATTERNS that stops at the first pattern with a
\* violation.
violationsFrom_first(patterns, text, k) ==
  IF k > Len(patterns) THEN <<>>
  ELSE IF Len(violationsOf(patterns[k][1], match(text, patterns[k][2]))) > 0
  THEN violationsOf(patterns[k][1], match(text, patterns[k][2]))
  ELSE violationsFrom_first(patterns, text, k + 1)

RECURSIVE violationsFrom(_, _, _)
\* The violations of the patterns from the k-th on.
violationsFrom(patterns, text, k) ==
  IF k > Len(patterns) THEN <<>>
  ELSE violationsOf(patterns[k][1], match(text, patterns[k][2]))
       \o violationsFrom(patterns, text, k + 1)

\* The texts of the documents of the model.
TextStar == "Baby Star"
TextTwin == "Twin A"
TextHx == "G2P2, GDM"
TextNameDob == "Jane Smith, DOB: 1/5/90"
TextPhone == "call 555-123-4567"
TextName == "Amy Jones"
TextRds == "RDS, on CPAP"
TextBloodDob == "Amy Blood, DOB: 1/5/90"
Texts == {TextStar, TextTwin, TextHx, TextNameDob, TextPhone, TextName, TextRds,
          TextBloodDob, "2025-10-26", "07:00", "ICU",
          "2025-10-26T07:00:00Z", "2025-10-26T10:00:00Z"}

\* The loop over PHI_PATTERNS is a pure function of the text: its values on
\* the texts of the model are computed once and looked up afterwards.
violationsIn == [text \in Texts |-> violationsFrom(PHI_PATTERNS, text, 1)]

\* The return of detectPHI for the violations found.
orNull(violations) == IF Len(violations) > 0 THEN Arr(violations) ELSE Null

\* detectPHI(text): the array of violations, or null.
detectPHI(text) ==
  IF ~Truthy(text) \/ text.t # "str" THEN Null ELSE orNull(violationsIn[text.v])

\* typeof x === 'object'
IsObjectType(x) == x.t \in {"obj", "arr", "null", "ts"}

\* Object.entries(data): the entries of an object; an array's are its items
\* under the keys "0", "1", ...; a timestamp holds numbers only.
Entries(data) ==
  CASE data.t = "obj" -> data.v
    [] data.t = "arr" -> [i \in 1..Len(data.v) |-> <<ToString(i - 1), data.v[i]>>]
    [] OTHER -> <<>>

\* The push of the finding of a field, if detectPHI returned violations.
pushed(phi, fieldPath) ==
  IF phi.t # "null" THEN <<[field |-> fieldPath, violations |-> phi.v]>> ELSE <<>>

\* The finding of one string value.
findingOf(text, fieldPath) == pushed(detectPHI(text), fieldPath)

RECURSIVE scanForPHI(_, _)
\* scanForPHI(data, path = ''): the findings, in traversal order.
scanForPHI(data, path) ==
  IF ~Truthy(data) \/ ~IsObjectType(data) THEN <<>>
  ELSE LET entries == Entries(data)
       IN Flatten([k \in 1..Len(entries) |->
            \* the body of the for loop, for the k-th entry
            LET key == entries[k][1]
                value == entries[k][2]
                currentPath == IF path # "" THEN path \o "." \o key ELSE key
            IN IF key = "createdAt" \/ key = "updatedAt" \/ key = "_" THEN <<>>
               ELSE IF value.t = "str" THEN findingOf(value, currentPath)
               ELSE IF value.t = "arr"
               THEN Flatten([n \in 1..Len(value.v) |->
                      \* the callback of value.forEach, for index n - 1
                      LET item == value.v[n]
                          here == currentPath \o "[" \o ToString(n - 1) \o "]"
                      IN IF IsObjectType(item) THEN scanForPHI(item, here)
                         ELSE IF item.t = "str" THEN findingOf(item, here)
                         ELSE <<>>])
               ELSE IF IsObjectType(value) /\ value.t # "null"
               THEN scanForPHI(value, currentPath)
               ELSE <<>>])

(***************************************************************************)
(* The document store and the trigger mechanism.                           *)
(***************************************************************************)
\* Bounds of the model: the client calls made and events redelivered, and the
\* trigger invocations started.
MaxOps == 2
MaxInvs == 3

APP_ID == "default-nicu-app"
USER_ID == "u1"
\* The shift the model follows, and the ids addDoc generates for its babies,
\* in the order it generates them.
ShiftIds == {"s1"}
BabyIdOrder == <<"b1", "b2">>
BabyId(n) == BabyIdOrder[n]
BabyIds == {BabyId(n) : n \in 1..Len(BabyIdOrder)}
\* artifacts/{appId}/users/{userId}/nicu_shifts/{shiftId}/babies/{babyId}
BabyPaths == ShiftIds \X BabyIds

\* The absence of a document at a path.
NoDoc == [t |-> "none"]

VARIABLES
  shifts,     \* shift id -> the shift document, or NoDoc
  babies,     \* <<shift id, baby id>> -> the baby document, or NoDoc
  audit,      \* the phi_violations collection, in the order of the adds
  invs,       \* the trigger invocations fired so far, each with its progress:
              \* pc (pending, audited, done, failed), the numbers of audit
              \* entries it appended and of corrective writes it committed,
              \* the store calls it completed in order, the call that threw,
              \* what it returned, the event it was delivered for (the index
              \* of the event's first invocation), the place in audit of the
              \* entry it appended and the document its corrective write left
  clock,      \* server time: it advances with every client call and every
              \* redelivery (the seeds are of time 0)
  nextId,     \* the number of baby ids addDoc has generated
  shiftIds,   \* the shift ids addDoc has generated
  ds,         \* the client's deleteShift call in progress
  sm,         \* the generateShiftSummary call in progress, or its outcome
  scan,       \* a call of scanForPHI on a value given to it, and its return
  tt          \* the touch time logs the client was shown, and its update calls

vars == <<shifts, babies, audit, invs, clock, nextId, shiftIds, ds, sm, scan, tt>>

\* The invocation a committed write of a baby document fires: onCreate when
\* the document comes into existence, onUpdate when an existing document's
\* data changes, none for a delete or a write that changes nothing.
Triggered(p, old, new) ==
  IF new = NoDoc \/ old = new THEN <<>>
  ELSE <<[kind |-> IF old = NoDoc THEN "create" ELSE "update",
          shiftId |-> p[1], babyId |-> p[2],
          before |-> old, after |-> new,
          pc |-> "pending", audited |-> 0, acted |-> 0,
          log |-> <<>>, threw |-> "none", ret |-> Null,
          event |-> Len(invs) + 1, entry |-> 0, wrote |-> Undefined]>>

\* A committed write of a baby document, with the trigger it fires.
WriteBaby(p, new) ==
  /\ Len(invs) + Len(Triggered(p, babies[p], new)) <= MaxInvs
  /\ babies' = [babies EXCEPT ![p] = new]
  /\ invs' = invs \o Triggered(p, babies[p], new)

(***************************************************************************)
(* Client accessors (firebase-helpers-v2.js).                              *)
(***************************************************************************)
\* What the client submits.
ShiftInput ==
  Obj(<< <<"shiftDate", Str("2025-10-26")>>, <<"shiftStartTime", Str("07:00")>>,
         <<"assignmentType", Str("ICU")>> >>)
CleanBaby ==
  Obj(<< <<"internalID_Nickname", Str(TextStar)>>,
         <<"reportSheet", Obj(<< <<"maternalHistory", Str(TextHx)>> >>)>> >>)
PhiBaby ==
  Obj(<< <<"internalID_Nickname", Str(TextTwin)>>,
         <<"reportSheet", Obj(<< <<"maternalHistory", Str(TextNameDob)>> >>)>> >>)
FilteredBaby ==
  Obj(<< <<"internalID_Nickname", Str(TextTwin)>>,
         <<"reportSheet", Obj(<< <<"maternalHistory", Str(TextBloodDob)>> >>)>> >>)
PhiUpdate == Obj(<< <<"bedRoomNumber", Str(TextPhone)>> >>)
CleanReport == Obj(<< <<"currentProblems", Str(TextRds)>> >>)
BabyInputs == {CleanBaby, PhiBaby, FilteredBaby}
UpdateInputs == {PhiUpdate}
ReportInputs == {CleanReport}

\* x || dflt
OrElse(x, dflt) == IF Truthy(x) THEN x ELSE dflt

\* The documents addShift and addBaby build, written at server time now.
addShiftDoc(shiftData, now) ==
  Put(Put(shiftData, "createdAt", Ts(now)), "updatedAt", Ts(now))
addBabyDoc(babyData, now) ==
  Put(Put(Put(Put(Put(babyData,
    "reportSheet", OrElse(Get(babyData, "reportSheet"), Obj(<<>>))),
    "touchTimeLogs", OrElse(Get(babyData, "touchTimeLogs"), Arr(<<>>))),
    "eventLogs", OrElse(Get(babyData, "eventLogs"), Arr(<<>>))),
    "createdAt", Ts(now)),
    "updatedAt", Ts(now))

addShift(shiftId, shiftData) ==
  LET shiftWithMetadata == addShiftDoc(shiftData, clock + 1)
  IN /\ clock < MaxOps
     /\ shiftId \notin shiftIds
     /\ shifts' = [shifts EXCEPT ![shiftId] = shiftWithMetadata]
     /\ shiftIds' = shiftIds \cup {shiftId}
     /\ clock' = clock + 1
     /\ UNCHANGED <<babies, audit, invs, nextId, ds, sm, scan, tt>>

\* deleteShift up to the end of getDocs: the babies of the shift are read.
deleteShift_read(shiftId) ==
  /\ clock < MaxOps
  /\ ds.pc # "read"
  /\ ds' = [pc |-> "read", shiftId |-> shiftId,
            docs |-> {b \in BabyIds : babies[<<shiftId, b>>] # NoDoc}]
  /\ clock' = clock + 1
  /\ UNCHANGED <<shifts, babies, audit, invs, nextId, shiftIds, sm, scan, tt>>

\* A faulty deleteShift that also clears the shift's entries of phi_violations.
deleteShift_commit_purges ==
  /\ ds.pc = "read"
  /\ babies' = [p \in BabyPaths |->
                  IF p[1] = ds.shiftId /\ p[2] \in ds.docs
                  THEN NoDoc ELSE babies[p]]
  /\ shifts' = [shifts EXCEPT ![ds.shiftId] = NoDoc]
  /\ audit' = SelectSeq(audit, LAMBDA entry : entry.shiftId # ds.shiftId)
  /\ ds' = [ds EXCEPT !.pc = "done"]
  /\ UNCHANGED <<invs, clock, nextId, shiftIds, sm, scan, tt>>

\* deleteShift from batch.commit() on: the babies read and the shift are
\* deleted in one atomic batch, which the store commits or rejects.
deleteShift_commit ==
  /\ ds.pc = "read"
  /\ \E accepted \in BOOLEAN :
       IF accepted
       THEN /\ babies' = [p \in BabyPaths |->
                            IF p[1] = ds.shiftId /\ p[2] \in ds.docs
                            THEN NoDoc ELSE babies[p]]
            /\ shifts' = [shifts EXCEPT ![ds.shiftId] = NoDoc]
            /\ ds' = [ds EXCEPT !.pc = "done"]
       ELSE /\ ds' = [ds EXCEPT !.pc = "failed"]
            /\ UNCHANGED <<shifts, babies>>
  /\ UNCHANGED <<audit, invs, clock, nextId, shiftIds, sm, scan, tt>>

addBaby(shiftId, babyData) ==
  LET babyWithDefaults == addBabyDoc(babyData, clock + 1)
  IN /\ clock < MaxOps
     /\ nextId < Len(BabyIdOrder)
     /\ WriteBaby(<<shiftId, BabyId(nextId + 1)>>, babyWithDefaults)
     /\ nextId' = nextId + 1
     /\ clock' = clock + 1
     /\ UNCHANGED <<shifts, audit, shiftIds, ds, sm, scan, tt>>

\* updateDoc(ref, data): the given fields replace the stored ones, the others
\* stay.
updateDoc(current, data) == PutAll(current, data, 1)

\* updateDoc is rejected when the document does not exist.
updateBaby(shiftId, babyId, babyData) ==
  LET p == <<shiftId, babyId>>
  IN /\ clock < MaxOps
     /\ babies[p] # NoDoc
     /\ WriteBaby(p, updateDoc(babies[p], Put(babyData, "updatedAt", Ts(clock + 1))))
     /\ clock' = clock + 1
     /\ UNCHANGED <<shifts, audit, nextId, shiftIds, ds, sm, scan, tt>>

deleteBaby(shiftId, babyId) ==
  LET p == <<shiftId, babyId>>
  IN /\ clock < MaxOps
     /\ babies[p] # NoDoc
     /\ WriteBaby(p, NoDoc)
     /\ clock' = clock + 1
     /\ UNCHANGED <<shifts, audit, nextId, shiftIds, ds, sm, scan, tt>>

setReportSheet(shiftId, babyId, reportData) ==
  LET p == <<shiftId, babyId>>
  IN /\ clock < MaxOps
     /\ babies[p] # NoDoc
     /\ WriteBaby(p, updateDoc(babies[p],
          Obj(<< <<"reportSheet", reportData>>, <<"updatedAt", Ts(clock + 1)>> >>)))
     /\ clock' = clock + 1
     /\ UNCHANGED <<shifts, audit, nextId, shiftIds, ds, sm, scan, tt>>

(***************************************************************************)
(* Enforcement handlers (Cloud Functions).                                 *)
(***************************************************************************)
\* Faulty variants of the handlers' calls, against which the properties below
\* are tried: a return that carries the matched text, an add that stores
\* nothing, a delete that leaves the document, a set that merges, and a scan
\* of both values of a change.
FieldsOf_sampled(findings) ==
  [i \in 1..Len(findings) |->
     findings[i].field \o ": " \o findings[i].violations[1].sample]
add_nothing(collection, entry) == collection
refDelete_kept(current) == current
setNoMerge_merged(current, data) == updateDoc(current, data)
changeFindings_both(before, after) ==
  scanForPHI(before, "") \o scanForPHI(after, "")
\* A delete that leaves a marker where it finds no document, and an add that
\* skips an entry the collection already holds for the same baby, findings
\* and action.
refDelete_marked(current) ==
  IF current = NoDoc THEN Obj(<< <<"deleted", Num(1)>> >>) ELSE NoDoc
add_deduped(collection, entry) ==
  IF \E k \in 1..Len(collection) :
       /\ collection[k].shiftId = entry.shiftId
       /\ collection[k].babyId = entry.babyId
       /\ collection[k].findings = entry.findings
       /\ collection[k].action = entry.action
  THEN collection
  ELSE Append(collection, entry)

\* phiFindings.map(f => f.field)
FieldsOf(findings) == [i \in 1..Len(findings) |-> findings[i].field]

\* The document added to phi_violations.
Violation(inv, phiFindings, action) ==
  [appId |-> APP_ID, userId |-> USER_ID, shiftId |-> inv.shiftId,
   babyId |-> inv.babyId, documentType |-> "baby", timestamp |-> Ts(clock),
   findings |-> phiFindings, action |-> action, severity |-> "high"]

\* collection.add(entry): a new document at the end of the collection.
add(collection, entry) == Append(collection, entry)

\* snap.ref.delete(): the document is gone.
refDelete(current) == NoDoc

\* What validateBabyDataUpdate scans of a change: the new value.
changeFindings(before, after) == scanForPHI(after, "")

\* A faulty validateBabyData that records every validation, approvals too.
validateBabyData_scan_logsAll(i) ==
  LET inv == invs[i]
      phiFindings == scanForPHI(inv.after, "")
  IN /\ inv.kind = "create" /\ inv.pc = "pending"
     /\ IF Len(phiFindings) > 0
        THEN /\ audit' = add(audit, Violation(inv, phiFindings, "deleted"))
             /\ invs' = [invs EXCEPT ![i].pc = "audited",
                           ![i].audited = inv.audited + 1,
                           ![i].entry = Len(audit) + 1,
                           ![i].log = Append(inv.log, "audit")]
        ELSE /\ audit' = add(audit, Violation(inv, phiFindings, "approved"))
             /\ invs' = [invs EXCEPT ![i].pc = "done",
                           ![i].ret = [status |-> "approved"]]
     /\ UNCHANGED <<shifts, babies, clock, nextId, shiftIds, ds, sm, scan, tt>>

\* validateBabyData up to the end of its first store call: the scan and, on
\* findings, the add to phi_violations, which the store accepts or rejects.
validateBabyData_scan(i) ==
  LET inv == invs[i]
      phiFindings == scanForPHI(inv.after, "")
  IN /\ inv.kind = "create" /\ inv.pc = "pending"
     /\ IF Len(phiFindings) > 0
        THEN \E accepted \in BOOLEAN :
               IF accepted
               THEN /\ audit' = add(audit, Violation(inv, phiFindings, "deleted"))
                    /\ invs' = [invs EXCEPT ![i].pc = "audited",
                                  ![i].audited = inv.audited + 1,
                                  ![i].entry = Len(audit) + 1,
                                  ![i].log = Append(inv.log, "audit")]
               ELSE /\ invs' = [invs EXCEPT ![i].pc = "failed", ![i].threw = "audit"]
                    /\ UNCHANGED audit
        ELSE /\ invs' = [invs EXCEPT ![i].pc = "done",
                           ![i].ret = [status |-> "approved"]]
             /\ UNCHANGED audit
     /\ UNCHANGED <<shifts, babies, clock, nextId, shiftIds, ds, sm, scan, tt>>

\* A faulty validateBabyData that deletes the babies collection of the shift
\* rather than the one document.
validateBabyData_delete_all(i) ==
  LET inv == invs[i]
      phiFindings == scanForPHI(inv.after, "")
  IN /\ inv.kind = "create" /\ inv.pc = "audited"
     /\ babies' = [p \in BabyPaths |->
                     IF p[1] = inv.shiftId THEN NoDoc ELSE babies[p]]
     /\ invs' = [invs EXCEPT ![i].pc = "done",
                   ![i].acted = inv.acted + 1,
                   ![i].log = Append(inv.log, "delete"),
                   ![i].wrote = NoDoc,
                   ![i].ret = [status |-> "blocked", reason |-> "PHI detected",
                               findings |-> FieldsOf(phiFindings)]]
     /\ UNCHANGED <<shifts, audit, clock, nextId, shiftIds, ds, sm, scan, tt>>

\* validateBabyData from snap.ref.delete() to the return.
validateBabyData_delete(i) ==
  LET inv == invs[i]
      p == <<inv.shiftId, inv.babyId>>
      phiFindings == scanForPHI(inv.after, "")
  IN /\ inv.kind = "create" /\ inv.pc = "audited"
     /\ \E accepted \in BOOLEAN :
          IF accepted
          THEN /\ babies' = [babies EXCEPT ![p] = refDelete(babies[p])]
               /\ invs' = [invs EXCEPT ![i].pc = "done",
                             ![i].acted = inv.acted + 1,
                             ![i].log = Append(inv.log, "delete"),
                             ![i].wrote = refDelete(babies[p]),
                             ![i].ret = [status |-> "blocked", reason |-> "PHI detected",
                                         findings |-> FieldsOf(phiFindings)]]
          ELSE /\ invs' = [invs EXCEPT ![i].pc = "failed", ![i].threw = "delete"]
               /\ UNCHANGED babies
     /\ UNCHANGED <<shifts, audit, clock, nextId, shiftIds, ds, sm, scan, tt>>

\* validateBabyDataUpdate up to the end of its first store call: the scan of
\* the new value and, on findings, the add to phi_violations.
validateBabyDataUpdate_scan(i) ==
  LET inv == invs[i]
      phiFindings == changeFindings(inv.before, inv.after)
  IN /\ inv.kind = "update" /\ inv.pc = "pending"
     /\ IF Len(phiFindings) > 0
        THEN \E accepted \in BOOLEAN :
               IF accepted
               THEN /\ audit' = add(audit, Violation(inv, phiFindings, "rollback"))
                    /\ invs' = [invs EXCEPT ![i].pc = "audited",
                                  ![i].audited = inv.audited + 1,
                                  ![i].entry = Len(audit) + 1,
                                  ![i].log = Append(inv.log, "audit")]
               ELSE /\ invs' = [invs EXCEPT ![i].pc = "failed", ![i].threw = "audit"]
                    /\ UNCHANGED audit
        ELSE /\ invs' = [invs EXCEPT ![i].pc = "done",
                           ![i].ret = [status |-> "approved"]]
             /\ UNCHANGED audit
     /\ UNCHANGED <<shifts, babies, clock, nextId, shiftIds, ds, sm, scan, tt>>

\* ref.set(data, { merge: false }): the document becomes exactly data.
setNoMerge(current, data) == data

\* validateBabyDataUpdate from change.after.ref.set(oldData, { merge: false })
\* to the return.  The set is a write like any other: it fires onUpdate when
\* it changes the document and onCreate when the document is gone.
validateBabyDataUpdate_set(i) ==
  LET inv == invs[i]
      p == <<inv.shiftId, inv.babyId>>
      oldData == inv.before
      phiFindings == changeFindings(inv.before, inv.after)
      returned == [invs EXCEPT ![i].pc = "done",
                     ![i].acted = inv.acted + 1,
                     ![i].log = Append(inv.log, "set"),
                     ![i].wrote = setNoMerge(babies[p], oldData),
                     ![i].ret = [status |-> "rolled_back",
                                 reason |-> "PHI detected in update",
                                 findings |-> FieldsOf(phiFindings)]]
      written == setNoMerge(babies[p], oldData)
  IN /\ inv.kind = "update" /\ inv.pc = "audited"
     /\ \E accepted \in BOOLEAN :
          IF accepted
          THEN /\ Len(invs) + Len(Triggered(p, babies[p], written)) <= MaxInvs
               /\ babies' = [babies EXCEPT ![p] = written]
               /\ invs' = returned \o Triggered(p, babies[p], written)
          ELSE /\ invs' = [invs EXCEPT ![i].pc = "failed", ![i].threw = "set"]
               /\ UNCHANGED babies
     /\ UNCHANGED <<shifts, audit, clock, nextId, shiftIds, ds, sm, scan, tt>>

\* The trigger mechanism delivers an event at least once: the invocation of
\* an event may be started again, with the same values, at any time.
redeliver(i) ==
  /\ clock < MaxOps
  /\ Len(invs) < MaxInvs
  /\ invs' = Append(invs, [invs[i] EXCEPT !.pc = "pending", !.audited = 0,
                             !.acted = 0, !.log = <<>>, !.threw = "none",
                             !.ret = Null, !.entry = 0, !.wrote = Undefined])
  /\ clock' = clock + 1
  /\ UNCHANGED <<shifts, babies, audit, nextId, shiftIds, ds, sm, scan, tt>>

(***************************************************************************)
(* generateShiftSummary (callable Cloud Function).                         *)
(***************************************************************************)
\* `${x}`: the string a template literal makes of a value.
ToStr(x) ==
  CASE x.t = "str" -> x.v
    [] x.t = "num" -> ToString(x.v)
    [] x.t = "bool" -> IF x.v THEN "true" ELSE "false"
    [] x.t = "undef" -> "undefined"
    [] x.t = "null" -> "null"
    [] x.t = "ts" -> "Timestamp(" \o ToString(x.v) \o ")"
    [] x.t = "arr" -> "[array]"
    [] OTHER -> "[object Object]"

\* `${x || 'N/A'}`
OrNA(x) == ToStr(OrElse(x, Str("N/A")))

\* The times the client stamps its log entries with: new Date(iso) as a
\* number, and its toLocaleTimeString('en-US', hour and minute).
IsoTimes ==
  << [iso |-> "2025-10-26T07:00:00Z", ms |-> 1, hm |-> "07:00 AM"],
     [iso |-> "2025-10-26T10:00:00Z", ms |-> 2, hm |-> "10:00 AM"],
     [iso |-> "2025-10-26T13:00:00Z", ms |-> 3, hm |-> "01:00 PM"] >>
IsDate(x) == x.t = "str" /\ \E i \in 1..Len(IsoTimes) : IsoTimes[i].iso = x.v
DateOf(x) == IsoTimes[CHOOSE i \in 1..Len(IsoTimes) : IsoTimes[i].iso = x.v]
\* new Date(a.timestamp) - new Date(b.timestamp) > 0 (NaN is not)
Later(a, b) ==
  /\ IsDate(Get(a, "timestamp")) /\ IsDate(Get(b, "timestamp"))
  /\ DateOf(Get(a, "timestamp")).ms > DateOf(Get(b, "timestamp")).ms
timeOf(x) == IF IsDate(x) THEN DateOf(x).hm ELSE "Invalid Date"

RECURSIVE sortByTimestamp(_)
\* logs.sort((a, b) => new Date(a.timestamp) - new Date(b.timestamp)): stable.
sortByTimestamp(logs) ==
  IF Len(logs) <= 1 THEN logs
  ELSE LET rest == sortByTimestamp(SubSeq(logs, 1, Len(logs) - 1))
           last == logs[Len(logs)]
           keep == CHOOSE k \in 0..Len(rest) :
                     /\ \A j \in (k + 1)..Len(rest) : Later(rest[j], last)
                     /\ (k > 0 => ~Later(rest[k], last))
       IN SubSeq(rest, 1, keep) \o <<last>> \o SubSeq(rest, keep + 1, Len(rest))

RECURSIVE joinComma(_)
\* list.join(', ')
joinComma(list) ==
  IF Len(list) = 0 THEN ""
  ELSE IF Len(list) = 1 THEN list[1]
  ELSE list[1] \o ", " \o joinComma(Tail(list))

\* The report-sheet lines of one baby.
reportSheetText(rs) ==
  LET meds == Get(rs, "medications")
      medEntries == IF meds.t = "obj" THEN meds.v ELSE <<>>
      picked == SelectSeq(medEntries,
                  LAMBDA e : e[2] = Bool(TRUE) /\ e[1] # "otherMedications")
      medList == [i \in 1..Len(picked) |-> picked[i][1]]
      other == Get(meds, "otherMedications")
  IN "\n  -- Clinical Summary --\n"
     \o "  Maternal Hx: " \o OrNA(Get(rs, "maternalHistory")) \o "\n"
     \o "  Current Problems: " \o OrNA(Get(rs, "currentProblems")) \o "\n"
     \o "  Respiratory: " \o OrNA(Get(rs, "respiratoryMode"))
     \o (IF Truthy(Get(rs, "respiratoryFlow"))
         THEN " @ " \o ToStr(Get(rs, "respiratoryFlow")) \o "L/min" ELSE "")
     \o (IF Truthy(Get(rs, "respiratoryFiO2"))
         THEN ", FiO2 " \o ToStr(Get(rs, "respiratoryFiO2")) \o "%" ELSE "")
     \o "\n"
     \o "  Feeds: " \o OrNA(Get(rs, "feedsRoute")) \o " | " \o OrNA(Get(rs, "feedType"))
     \o " " \o ToStr(OrElse(Get(rs, "feedCalories"), Str("")))
     \o (IF Truthy(Get(rs, "feedVolume"))
         THEN " " \o ToStr(Get(rs, "feedVolume")) \o "ml" ELSE "")
     \o "\n"
     \o (IF Truthy(Get(rs, "bottleNippleType"))
         THEN "  Bottle/Nipple: " \o ToStr(Get(rs, "bottleNippleType")) \o "\n" ELSE "")
     \o (IF Truthy(meds) /\ (Len(medList) > 0 \/ Truthy(other))
         THEN "  Medications: "
              \o (IF Len(medList) > 0 THEN joinComma(medList) ELSE "")
              \o (IF Truthy(other)
                  THEN (IF Len(medList) > 0 THEN ", " ELSE "") \o ToStr(other) ELSE "")
              \o "\n"
         ELSE "")
     \o (IF Truthy(Get(rs, "labsOrdered"))
         THEN "  Labs: " \o ToStr(Get(rs, "labsOrdered")) \o "\n" ELSE "")
     \o (IF Truthy(Get(rs, "treatmentPlan"))
         THEN "  Tx Plan: " \o ToStr(Get(rs, "treatmentPlan")) \o "\n" ELSE "")

RECURSIVE touchTimeText(_)
\* The forEach over the sorted touch time logs.
touchTimeText(logs) ==
  IF Len(logs) = 0 THEN ""
  ELSE LET log == logs[1]
       IN (IF Truthy(Get(log, "completed"))
           THEN "    " \o ToStr(Get(log, "scheduledTime")) \o ": "
                \o "T:" \o OrNA(Get(log, "temp")) \o " HR:" \o OrNA(Get(log, "hr")) \o " "
                \o "RR:" \o OrNA(Get(log, "rr")) \o " SpO2:" \o OrNA(Get(log, "spo2"))
                \o (IF Truthy(Get(log, "feedVolume"))
                    THEN " | Feed: " \o ToStr(Get(log, "feedVolume")) \o "ml "
                         \o ToStr(OrElse(Get(log, "feedRoute"), Str("")))
                    ELSE "")
                \o "\n"
                \o (IF Truthy(Get(log, "comments"))
                    THEN "      Note: " \o ToStr(Get(log, "comments")) \o "\n" ELSE "")
           ELSE "")
          \o touchTimeText(Tail(logs))

RECURSIVE eventText(_)
\* The forEach over the sorted event logs.
eventText(events) ==
  IF Len(events) = 0 THEN ""
  ELSE "    " \o timeOf(Get(events[1], "timestamp")) \o " - "
       \o ToStr(Get(events[1], "eventType")) \o ": "
       \o ToStr(Get(events[1], "eventDetails")) \o "\n"
       \o eventText(Tail(events))

\* The section of one baby (the body of the for loop over babies).
babyText(baby) ==
  LET touch == Get(baby, "touchTimeLogs")
      events == Get(baby, "eventLogs")
  IN "\n--- Baby: " \o ToStr(Get(baby, "internalID_Nickname")) \o " ---\n"
     \o "  GA: " \o ToStr(Get(baby, "gestationalAge_Weeks")) \o "+"
     \o ToStr(Get(baby, "gestationalAge_Days")) \o " weeks\n"
     \o "  CGA: " \o ToStr(Get(baby, "correctedGestationalAge_Weeks")) \o "+"
     \o ToStr(Get(baby, "correctedGestationalAge_Days")) \o " weeks\n"
     \o "  PNA: Day " \o ToStr(Get(baby, "pna_Days")) \o "\n"
     \o "  Bed: " \o OrNA(Get(baby, "bedRoomNumber")) \o "\n"
     \o "  Birth Wt: " \o OrNA(Get(baby, "birthWeight")) \o "g | Last Wt: "
     \o OrNA(Get(baby, "lastWeight")) \o "g\n"
     \o (IF Truthy(Get(baby, "reportSheet"))
         THEN reportSheetText(Get(baby, "reportSheet")) ELSE "")
     \o (IF touch.t = "arr" /\ Len(touch.v) > 0
         THEN "\n  -- Touch Time Logs (" \o ToString(Len(touch.v)) \o ") --\n"
              \o touchTimeText(sortByTimestamp(touch.v))
         ELSE "")
     \o (IF events.t = "arr" /\ Len(events.v) > 0
         THEN "\n  -- Event Log (" \o ToString(Len(events.v)) \o ") --\n"
              \o eventText(sortByTimestamp(events.v))
         ELSE "")
     \o "\n"

RECURSIVE babiesText(_)
babiesText(list) ==
  IF Len(list) = 0 THEN "" ELSE babyText(list[1]) \o babiesText(Tail(list))

\* The summary text built from the shift and the babies read, at time now.
summaryText(shift, list, now) ==
  "=== NICU SHIFT REPORT SUMMARY ===\n\n"
  \o "Shift Date: " \o ToStr(Get(shift, "shiftDate")) \o "\n"
  \o "Shift Start Time: " \o ToStr(Get(shift, "shiftStartTime")) \o "\n"
  \o "Assignment Type: " \o ToStr(Get(shift, "assignmentType")) \o "\n"
  \o "Total Babies: " \o ToString(Len(list)) \o "\n\n"
  \o "=================================\n\n"
  \o babiesText(list)
  \o "\n=== END OF SHIFT REPORT ===\n"
  \o "Generated: " \o ToString(now) \o "\n"
  \o "Generated with Cloud Functions\n"

\* new functions.https.HttpsError(code, message, details): what the caller
\* of the callable receives.
HttpsError(code, message, details) ==
  [error |-> TRUE, code |-> code, message |-> message, details |-> details]

\* The callers and the requests of the model.
NoAuth == Null
Callers == {NoAuth, [uid |-> USER_ID], [uid |-> "u2"]}
Requests ==
  {Obj(<< <<"appId", Str(APP_ID)>>, <<"shiftId", Str("s1")>> >>),
   Obj(<< <<"appId", Str(APP_ID)>> >>),
   Obj(<< <<"shiftId", Str("s1")>> >>)}
\* The messages of the errors with which the store rejects a call.
StoreErrors == {"DEADLINE_EXCEEDED", "UNAVAILABLE"}

\* The catch block: whatever was thrown inside the try becomes an internal
\* error carrying the thrown error's message.
caught(message) ==
  HttpsError("internal", "Failed to generate shift summary", Str(message))

\* The documents under artifacts/{appId}/users/{userId}: the model's store
\* holds those of APP_ID and USER_ID.
InStore(call) == call.auth.uid = USER_ID /\ Get(call.data, "appId") = Str(APP_ID)

\* A faulty check of the request that looks at the arguments before the
\* caller.
refused_argumentsFirst(auth, data) ==
  IF ~Truthy(Get(data, "appId")) \/ ~Truthy(Get(data, "shiftId"))
  THEN HttpsError("invalid-argument", "appId and shiftId are required", Null)
  ELSE IF auth = NoAuth
  THEN HttpsError("unauthenticated",
                  "User must be authenticated to generate summaries", Null)
  ELSE Null

\* The checks of the caller and of the arguments: the error thrown, or null.
refused(auth, data) ==
  IF auth = NoAuth
  THEN HttpsError("unauthenticated",
                  "User must be authenticated to generate summaries", Null)
  ELSE IF ~Truthy(Get(data, "appId")) \/ ~Truthy(Get(data, "shiftId"))
  THEN HttpsError("invalid-argument", "appId and shiftId are required", Null)
  ELSE Null

\* generateShiftSummary up to the end of shiftRef.get(): the checks of the
\* caller and of the arguments, then the read of the shift.
generateShiftSummary_call(auth, data) ==
  LET appId == Get(data, "appId")
      shiftId == Get(data, "shiftId")
      call == [auth |-> auth, data |-> data]
      idle == [pc |-> "returned", auth |-> auth, data |-> data, shift |-> NoDoc,
               babies |-> <<>>, reads |-> 0, writes |-> 0, threw |-> "none",
               ret |-> Null]
  IN /\ clock < MaxOps
     /\ sm.pc \in {"idle", "returned"}
     /\ clock' = clock + 1
     /\ IF refused(auth, data) # Null
        THEN sm' = [idle EXCEPT !.ret = refused(auth, data)]
        ELSE \E failure \in StoreErrors \cup {"none"} :
               IF failure # "none"
               THEN sm' = [idle EXCEPT !.reads = 1, !.threw = failure,
                                       !.ret = caught(failure)]
               ELSE LET shiftSnap == IF InStore(call) /\ shiftId.v \in ShiftIds
                                     THEN shifts[shiftId.v] ELSE NoDoc
                    IN IF shiftSnap = NoDoc
                       THEN sm' = [idle EXCEPT !.reads = 1, !.threw = "not-found",
                                      !.ret = caught("Shift not found")]
                       ELSE sm' = [idle EXCEPT !.pc = "getBabies", !.reads = 1,
                                                !.shift = shiftSnap]
     /\ UNCHANGED <<shifts, babies, audit, invs, nextId, shiftIds, ds, scan, tt>>

\* babiesSnap.docs.map(doc => ({ id: doc.id, ...doc.data() })), the documents
\* in the order of their ids.
RECURSIVE babyList(_, _)
babyList(shiftId, n) ==
  IF n > Len(BabyIdOrder) THEN <<>>
  ELSE (IF babies[<<shiftId, BabyId(n)>>] = NoDoc THEN <<>>
        ELSE <<PutAll(Obj(<< <<"id", Str(BabyId(n))>> >>),
                      babies[<<shiftId, BabyId(n)>>], 1)>>)
       \o babyList(shiftId, n + 1)

\* generateShiftSummary: the read of the babies of the shift.
generateShiftSummary_getBabies ==
  /\ sm.pc = "getBabies"
  /\ \E failure \in StoreErrors \cup {"none"} :
       IF failure # "none"
       THEN sm' = [sm EXCEPT !.pc = "returned", !.reads = sm.reads + 1,
                             !.threw = failure, !.ret = caught(failure)]
       ELSE sm' = [sm EXCEPT !.pc = "update", !.reads = sm.reads + 1,
                             !.babies = babyList(Get(sm.data, "shiftId").v, 1)]
  /\ UNCHANGED <<shifts, babies, audit, invs, clock, nextId, shiftIds, ds, scan, tt>>

\* A faulty caching that sets the shift document instead of updating it.
cacheSummary_replaced(shift, summary, now) ==
  Obj(<< <<"cachedSummary", Str(summary)>>, <<"summaryGeneratedAt", Ts(now)>> >>)

\* shiftRef.update({ cachedSummary: summary, summaryGeneratedAt: serverTimestamp() })
cacheSummary(shift, summary, now) ==
  updateDoc(shift, Obj(<< <<"cachedSummary", Str(summary)>>,
                          <<"summaryGeneratedAt", Ts(now)>> >>))

\* generateShiftSummary from shiftRef.update(...) to the return: the summary
\* is cached on the shift document; update is rejected when the document
\* does not exist (any more).
generateShiftSummary_update ==
  LET shiftId == Get(sm.data, "shiftId").v
      summary == summaryText(sm.shift, sm.babies, clock)
  IN /\ sm.pc = "update"
     /\ \E failure \in StoreErrors \cup {"none"} :
          IF failure # "none"
          THEN /\ sm' = [sm EXCEPT !.pc = "returned", !.threw = failure,
                                   !.ret = caught(failure)]
               /\ UNCHANGED shifts
          ELSE IF shifts[shiftId] = NoDoc
          THEN /\ sm' = [sm EXCEPT !.pc = "returned", !.threw = "update",
                                   !.ret = caught("No document to update")]
               /\ UNCHANGED shifts
          ELSE /\ shifts' = [shifts EXCEPT ![shiftId] =
                    cacheSummary(shifts[shiftId], summary, clock)]
               /\ sm' = [sm EXCEPT !.pc = "returned", !.writes = sm.writes + 1,
                                   !.ret = [summary |-> summary, timestamp |-> clock,
                                            babyCount |-> Len(sm.babies)]]
     /\ UNCHANGED <<babies, audit, invs, clock, nextId, shiftIds, ds, scan, tt>>

\* The model starts from an empty store, or from a store in use: the shift
\* exists and holds one baby that validateBabyData has approved.
Init ==
  /\ \E inUse \in BOOLEAN :
       /\ shifts = [s \in ShiftIds |->
                      IF inUse THEN addShiftDoc(ShiftInput, 0) ELSE NoDoc]
       /\ babies = [p \in BabyPaths |->
                      IF inUse /\ p[2] = BabyId(1) THEN addBabyDoc(CleanBaby, 0)
                      ELSE NoDoc]
       /\ nextId = IF inUse THEN 1 ELSE 0
       /\ shiftIds = IF inUse THEN ShiftIds ELSE {}
  /\ audit = <<>>
  /\ invs = <<>>
  /\ clock = 0
  /\ ds = [pc |-> "idle"]
  /\ sm = [pc |-> "idle"]
  /\ scan = [pc |-> "idle"]
  /\ tt = [shown |-> <<>>, calls |-> <<>>]

Next ==
  \/ \E s \in ShiftIds : addShift(s, ShiftInput)
  \/ \E s \in ShiftIds : deleteShift_read(s)
  \/ deleteShift_commit
  \/ \E s \in ShiftIds, d \in BabyInputs : addBaby(s, d)
  \/ \E s \in ShiftIds, b \in BabyIds, d \in UpdateInputs : updateBaby(s, b, d)
  \/ \E s \in ShiftIds, b \in BabyIds : deleteBaby(s, b)
  \/ \E s \in ShiftIds, b \in BabyIds, d \in ReportInputs : setReportSheet(s, b, d)
  \/ \E a \in Callers, d \in Requests : generateShiftSummary_call(a, d)
  \/ generateShiftSummary_getBabies
  \/ generateShiftSummary_update
  \/ \E i \in 1..Len(invs) : validateBabyData_scan(i)
  \/ \E i \in 1..Len(invs) : validateBabyData_delete(i)
  \/ \E i \in 1..Len(invs) : validateBabyDataUpdate_scan(i)
  \/ \E i \in 1..Len(invs) : validateBabyDataUpdate_set(i)
  \/ \E i \in 1..Len(invs) : redeliver(i)

Spec == Init /\ [][Next]_vars

(***************************************************************************)
(* Report sheets written one after the other to a baby of a shift in use,  *)
(* and the handlers their writes fire.                                     *)
(***************************************************************************)

RaceInit ==
  /\ shifts = [s \in ShiftIds |-> addShiftDoc(ShiftInput, 0)]
  /\ babies = [p \in BabyPaths |->
                 IF p[2] = BabyId(1) THEN addBabyDoc(CleanBaby, 0) ELSE NoDoc]
  /\ nextId = 1
  /\ shiftIds = ShiftIds
  /\ audit = <<>>
  /\ invs = <<>>
  /\ clock = 0
  /\ ds = [pc |-> "idle"]
  /\ sm = [pc |-> "idle"]
  /\ scan = [pc |-> "idle"]
  /\ tt = [shown |-> <<>>, calls |-> <<>>]

RaceNext ==
  \/ \E s \in ShiftIds, b \in BabyIds, d \in {CleanReport, Obj(<< <<"currentProblems", Str(TextPhone)>> >>)} :
       setReportSheet(s, b, d)
  \/ \E i \in 1..Len(invs) : validateBabyDataUpdate_scan(i)
  \/ \E i \in 1..Len(invs) : validateBabyDataUpdate_set(i)

RaceSpec == RaceInit /\ [][RaceNext]_vars

(***************************************************************************)
(* Touch time logs: the array of a baby document, as the client appends to *)
(* it, is shown it, and updates one entry of it.                           *)
(***************************************************************************)
\* The entries the client charts: a time and notes.
LogOf(iso, notes) == Obj(<< <<"timestamp", Str(iso)>>, <<"notes", Str(notes)>> >>)
LogInputs ==
  {LogOf("2025-10-26T07:00:00Z", TextRds), LogOf("2025-10-26T10:00:00Z", TextHx),
   LogOf("2025-10-26T10:00:00Z", TextPhone)}

\* docSnap.data().touchTimeLogs || []
touchTimeLogsOf(document) ==
  IF Get(document, "touchTimeLogs").t = "arr"
  THEN Get(document, "touchTimeLogs").v
  ELSE <<>>

\* arrayUnion(element): the element is appended unless the array holds it.
arrayUnion(array, element) ==
  IF \E i \in 1..Len(array) : array[i] = element THEN array
  ELSE Append(array, element)

\* logs.map((log, index) => ({ ...log, id: index.toString() }))
logsWithIds(logs) ==
  [i \in 1..Len(logs) |-> Put(logs[i], "id", Str(ToString(i - 1)))]

\* The snapshot callback of getTouchTimeLogs: the client is shown the logs
\* of the stored document, sorted, each with its index as id.
getTouchTimeLogs(shiftId, babyId) ==
  LET p == <<shiftId, babyId>>
  IN /\ tt' = [tt EXCEPT !.shown =
                 IF babies[p] # NoDoc
                 THEN logsWithIds(sortByTimestamp(touchTimeLogsOf(babies[p])))
                 ELSE <<>>]
     /\ UNCHANGED <<shifts, babies, audit, invs, clock, nextId, shiftIds, ds, sm, scan>>

addTouchTimeLog(shiftId, babyId, logData) ==
  LET p == <<shiftId, babyId>>
  IN /\ clock < MaxOps
     /\ babies[p] # NoDoc
     /\ WriteBaby(p, updateDoc(babies[p],
          Obj(<< <<"touchTimeLogs",
                   Arr(arrayUnion(touchTimeLogsOf(babies[p]), logData))>>,
                 <<"updatedAt", Ts(clock + 1)>> >>)))
     /\ clock' = clock + 1
     /\ UNCHANGED <<shifts, audit, nextId, shiftIds, ds, sm, scan, tt>>

\* updateTouchTimeLog builds its query from collection(babyRef.parent), a
\* collection call without a path, and `where`, a name the module neither
\* imports nor defines: evaluating the arguments throws, and the call is
\* rejected before the document is read or written.
updateTouchTimeLog(shiftId, babyId, logIndex, logData) ==
  /\ clock < MaxOps
  /\ tt' = [tt EXCEPT !.calls = Append(@,
              [path |-> <<shiftId, babyId>>, logIndex |-> logIndex,
               logData |-> logData, threw |-> "where is not defined"])]
  /\ clock' = clock + 1
  /\ UNCHANGED <<shifts, babies, audit, invs, nextId, shiftIds, ds, sm, scan>>

\* A shift in use with one baby, without logs or with two that were charted
\* in the order the array holds them, the later time first.
LogInit ==
  /\ shifts = [s \in ShiftIds |-> addShiftDoc(ShiftInput, 0)]
  /\ \E logs \in {<<>>, <<LogOf("2025-10-26T10:00:00Z", TextHx),
                          LogOf("2025-10-26T07:00:00Z", TextRds)>>} :
       babies = [p \in BabyPaths |->
                   IF p[2] = BabyId(1)
                   THEN Put(addBabyDoc(CleanBaby, 0), "touchTimeLogs", Arr(logs))
                   ELSE NoDoc]
  /\ nextId = 1
  /\ shiftIds = ShiftIds
  /\ audit = <<>>
  /\ invs = <<>>
  /\ clock = 0
  /\ ds = [pc |-> "idle"]
  /\ sm = [pc |-> "idle"]
  /\ scan = [pc |-> "idle"]
  /\ tt = [shown |-> <<>>, calls |-> <<>>]

LogNext ==
  \/ \E s \in ShiftIds, b \in BabyIds, d \in LogInputs : addTouchTimeLog(s, b, d)
  \/ \E s \in ShiftIds, b \in BabyIds : getTouchTimeLogs(s, b)
  \/ \E s \in ShiftIds, b \in BabyIds, n \in 1..Len(tt.shown) :
       updateTouchTimeLog(s, b, Get(tt.shown[n], "id"),
                          Obj(<< <<"notes", Str("ICU")>> >>))
  \/ \E i \in 1..Len(invs) : validateBabyDataUpdate_scan(i)
  \/ \E i \in 1..Len(invs) : validateBabyDataUpdate_set(i)

LogSpec == LogInit /\ [][LogNext]_vars

(***************************************************************************)
(* The enforcement handlers under fair scheduling.  An invocation is a     *)
(* stateless unit of work: when it has ended the platform holds nothing of *)
(* it, and the rows of phi_violations are read by no handler.  The state   *)
(* of this specification therefore drops both once written, so that a run  *)
(* of handlers that never ends is a cycle of finitely many states; a step  *)
(* that appends to phi_violations is still a step in which audit grows.    *)
(***************************************************************************)
\* The invocations that have neither returned nor thrown, in the order they
\* were fired.
stillRunning(list) == SelectSeq(list, LAMBDA inv : inv.pc \notin {"done", "failed"})

forget ==
  /\ audit # <<>> \/ Len(stillRunning(invs)) < Len(invs)
  /\ invs' = [k \in 1..Len(stillRunning(invs)) |->
                [stillRunning(invs)[k] EXCEPT !.event = k, !.entry = 0]]
  /\ audit' = <<>>
  /\ UNCHANGED <<shifts, babies, clock, nextId, shiftIds, ds, sm, scan, tt>>

\* One step of the i-th invocation.
handlerStep(i) ==
  /\ i <= Len(invs)
  /\ \/ validateBabyData_scan(i)
     \/ validateBabyData_delete(i)
     \/ validateBabyDataUpdate_scan(i)
     \/ validateBabyDataUpdate_set(i)

FairNext ==
  \/ \E s \in ShiftIds, d \in BabyInputs : addBaby(s, d)
  \/ \E s \in ShiftIds, b \in BabyIds, d \in UpdateInputs : updateBaby(s, b, d)
  \/ \E i \in 1..Len(invs) : validateBabyData_scan(i)
  \/ \E i \in 1..Len(invs) : validateBabyData_delete(i)
  \/ \E i \in 1..Len(invs) : validateBabyDataUpdate_scan(i)
  \/ \E i \in 1..Len(invs) : validateBabyDataUpdate_set(i)
  \/ forget

\* Every invocation eventually takes its next step.  The steps of the model
\* that write a baby wait while MaxInvs invocations are held, which forget
\* ends: a step that can be taken again and again is taken.
FairSpec ==
  /\ Init
  /\ [][FairNext]_vars
  /\ \A i \in 1..MaxInvs : SF_vars(handlerStep(i))
  /\ WF_vars(forget)

(***************************************************************************)
(* scanForPHI on its own: the function is called on a value built of       *)
(* objects, arrays, strings and numbers, nested to MaxDepth.               *)
(***************************************************************************)
\* Bound of the model: the nesting of the values given to scanForPHI.
MaxDepth == 3

Leaves == {Str(TextPhone), Str(TextHx), Num(7)}
RECURSIVE Values(_)
Values(d) ==
  IF d = 0 THEN Leaves
  ELSE Values(d - 1)
       \cup {Obj(<< <<key, v>> >>) :
               key \in {"notes", "_", "createdAt"}, v \in Values(d - 1)}
       \cup {Arr(<<v>>) : v \in Values(d - 1)}
       \cup {Arr(<<Str(TextHx), v>>) : v \in Values(d - 1)}
Records ==
  {Obj(<< <<"logs", v>>, <<"updatedAt", Ts(0)>> >>) : v \in Values(MaxDepth)}

ScanInit ==
  /\ shifts = [s \in ShiftIds |-> NoDoc]
  /\ babies = [p \in BabyPaths |-> NoDoc]
  /\ nextId = 0
  /\ shiftIds = {}
  /\ audit = <<>>
  /\ invs = <<>>
  /\ clock = 0
  /\ ds = [pc |-> "idle"]
  /\ sm = [pc |-> "idle"]
  /\ \E data \in Records : scan = [pc |-> "called", data |-> data]
  /\ tt = [shown |-> <<>>, calls |-> <<>>]

\* const findings = scanForPHI(data)
scanForPHI_call ==
  /\ scan.pc = "called"
  /\ scan' = [pc |-> "returned", data |-> scan.data,
              findings |-> scanForPHI(scan.data, "")]
  /\ UNCHANGED <<shifts, babies, audit, invs, clock, nextId, shiftIds, ds, sm, tt>>

ScanNext == scanForPHI_call

ScanSpec == ScanInit /\ [][ScanNext]_vars

(***************************************************************************)
(* detectPHI on its own, called again and again in one process: the        *)
(* patterns of PHI_PATTERNS are RegExp objects made once, and a RegExp     *)
(* with the g flag carries lastIndex from one use to the next.             *)
(***************************************************************************)
\* Bound of the model: the calls of detectPHI made in the process.
MaxCalls == 2

DetectTexts ==
  {TextHx, TextStar, TextName, TextNameDob, TextBloodDob, TextPhone,
   "Room Jane and Amy Jones", "Amy Jones, Eve Adams", "12 Heart Street",
   "birthday: 12/25/2020", "test@gmail.com", "test@hospital.org"}

\* lastIndex of the patterns when the module is loaded.
ZeroIndex == [k \in 1..Len(PHI_PATTERNS) |-> 0]

\* A faulty match that resumes at lastIndex and leaves it at the end of the
\* text when it found something.
stringMatch_resumed(s, re, lastIndex) ==
  [matches |-> MatchFrom(re, s, lastIndex + 1),
   lastIndex |-> IF Len(MatchFrom(re, s, lastIndex + 1)) > 0 THEN Len(s) ELSE 0]

\* text.match(pattern), pattern with the g flag: lastIndex is set to 0, the
\* search is repeated until it fails, and the failure leaves lastIndex at 0.
stringMatch(s, re, lastIndex) ==
  [matches |-> MatchFrom(re, s, 1), lastIndex |-> 0]

\* detectPHI(text) with the patterns in the state given: the violations
\* pushed, and the state the patterns are left in.
detectPHIWith(text, lastIndex) ==
  [violations |->
     Flatten([k \in 1..Len(PHI_PATTERNS) |->
                violationsOf(PHI_PATTERNS[k][1],
                  stringMatch(text, PHI_PATTERNS[k][2], lastIndex[k]).matches)]),
   lastIndex |->
     [k \in 1..Len(PHI_PATTERNS) |->
        stringMatch(text, PHI_PATTERNS[k][2], lastIndex[k]).lastIndex]]

\* Its values in a freshly loaded module, computed once.
detectedIn == [text \in DetectTexts |-> detectPHIWith(text, ZeroIndex)]
detected(text, lastIndex) ==
  IF lastIndex = ZeroIndex THEN detectedIn[text] ELSE detectPHIWith(text, lastIndex)

DetectInit ==
  /\ shifts = [s \in ShiftIds |-> NoDoc]
  /\ babies = [p \in BabyPaths |-> NoDoc]
  /\ nextId = 0
  /\ shiftIds = {}
  /\ audit = <<>>
  /\ invs = <<>>
  /\ clock = 0
  /\ ds = [pc |-> "idle"]
  /\ sm = [pc |-> "idle"]
  /\ scan = [pc |-> "loaded", lastIndex |-> ZeroIndex, calls |-> <<>>]
  /\ tt = [shown |-> <<>>, calls |-> <<>>]

\* const phi = detectPHI(text)
detectPHI_call(text) ==
  /\ scan.pc = "loaded"
  /\ Len(scan.calls) < MaxCalls
  /\ scan' = [scan EXCEPT
                !.lastIndex = detected(text, scan.lastIndex).lastIndex,
                !.calls = Append(@, [text |-> text,
                                     ret |-> orNull(detected(text, scan.lastIndex).violations)])]
  /\ UNCHANGED <<shifts, babies, audit, invs, clock, nextId, shiftIds, ds, sm, tt>>

DetectNext == \E text \in DetectTexts : detectPHI_call(text)

DetectSpec == DetectInit /\ [][DetectNext]_vars
(***************************************************************************)
(* Properties of the enforcement handlers and of the audit trail.          *)
(***************************************************************************)
\* C1: once every handler invocation fired for a baby document has run to
\* completion (has returned), the document is absent or its scan is empty.
C1_NoFindingPersists ==
  \A p \in BabyPaths :
    (\A i \in 1..Len(invs) :
       <<invs[i].shiftId, invs[i].babyId>> = p => invs[i].pc = "done")
    => (babies[p] = NoDoc \/ Len(scanForPHI(babies[p], "")) = 0)

\* A rollback has completed, every invocation for the document has returned,
\* and the document is there.
C1_Witness ==
  \E i \in 1..Len(invs) :
    /\ invs[i].pc = "done" /\ invs[i].acted = 1 /\ invs[i].kind = "update"
    /\ babies[<<invs[i].shiftId, invs[i].babyId>>] # NoDoc
    /\ \A j \in 1..Len(invs) :
         invs[j].babyId = invs[i].babyId => invs[j].pc = "done"

(***************************************************************************)
(* scanForPHI is a pure function of the document: its values on the        *)
(* documents that addBaby writes, and on those one updateBaby or           *)
(* setReportSheet later, are computed once and looked up afterwards.       *)
(***************************************************************************)
AddedDocs == {addBabyDoc(b, now) : b \in BabyInputs, now \in 0..MaxOps}
ChangedDocs ==
  {updateDoc(d, Put(u, "updatedAt", Ts(now))) :
     d \in AddedDocs, u \in UpdateInputs, now \in 1..MaxOps}
  \cup {updateDoc(d, Obj(<< <<"reportSheet", r>>, <<"updatedAt", Ts(now)>> >>)) :
          d \in AddedDocs, r \in ReportInputs, now \in 1..MaxOps}
findingsIn == [d \in AddedDocs \cup ChangedDocs |-> scanForPHI(d, "")]
findingsOf(doc) ==
  IF doc \in DOMAIN findingsIn THEN findingsIn[doc] ELSE scanForPHI(doc, "")

\* phi_violations holds an entry for the document of the invocation, with
\* the given findings.
entryOf(inv, findings) ==
  \E k \in 1..Len(audit) :
    /\ audit[k].shiftId = inv.shiftId
    /\ audit[k].babyId = inv.babyId
    /\ audit[k].findings = findings

\* C2: an invocation that returns normally has appended as many audit
\* entries as it performed corrective actions: one, present in the trail,
\* when it deleted or restored the document, none when it approved; and the
\* trail holds nothing but what the invocations appended.
C2_OneEntryPerAction ==
  LET RECURSIVE appended(_)
      appended(k) == IF k = 0 THEN 0 ELSE invs[k].audited + appended(k - 1)
  IN /\ Len(audit) = appended(Len(invs))
     /\ \A i \in 1..Len(invs) :
          invs[i].pc = "done" =>
            /\ invs[i].audited = invs[i].acted
            /\ invs[i].acted = IF invs[i].ret.status = "approved" THEN 0 ELSE 1
            /\ invs[i].acted = 1 =>
                 entryOf(invs[i], findingsOf(invs[i].after))

\* One invocation has returned after a delete and another after an approval.
C2_Witness ==
  /\ \E i \in 1..Len(invs) :
       /\ invs[i].pc = "done" /\ invs[i].ret.status = "blocked"
       /\ invs[i].audited = 1 /\ invs[i].acted = 1
  /\ \E j \in 1..Len(invs) :
       /\ invs[j].pc = "done" /\ invs[j].ret.status = "approved"
       /\ invs[j].audited = 0 /\ invs[j].acted = 0

\* C3: within an invocation the corrective write (delete or set) completes
\* before the audit entry is appended: no invocation's first completed store
\* call is the audit append.
C3_CorrectiveBeforeAudit ==
  \A i \in 1..Len(invs) :
    \A k \in 1..Len(invs[i].log) :
      invs[i].log[k] = "audit" =>
        \E j \in 1..(k - 1) : invs[i].log[j] \in {"delete", "set"}

\* C4: an invocation whose corrective write was rejected by the store has
\* left no audit entry.
C4_NoEntryForFailedAction ==
  \A i \in 1..Len(invs) :
    invs[i].threw \in {"delete", "set"} =>
      /\ invs[i].audited = 0
      /\ ~ \E k \in 1..Len(audit) :
             /\ audit[k].babyId = invs[i].babyId
             /\ audit[k].findings = scanForPHI(invs[i].after, "")

\* C5: an invocation whose audit append was rejected by the store has still
\* applied its corrective write by the time it ends.
C5_ActionDespiteAuditFailure ==
  \A i \in 1..Len(invs) :
    invs[i].threw = "audit" => invs[i].acted = 1

\* C6: when validateBabyData finds something in the created document, its
\* delete removes the document, phi_violations holds an entry of action
\* "deleted" (the rejection) and severity "high" with the user, shift and baby
\* ids of the path and the findings, and the handler returns "blocked" with
\* the paths of the offending fields and nothing else.
C6_CreateRejected ==
  [][\A i \in 1..Len(invs) :
       (/\ invs[i].kind = "create"
        /\ invs[i].pc # "done" /\ invs'[i].pc = "done"
        /\ Len(scanForPHI(invs[i].after, "")) > 0)
       => /\ babies'[<<invs[i].shiftId, invs[i].babyId>>] = NoDoc
          /\ \E k \in 1..Len(audit') :
               /\ audit'[k].userId = USER_ID
               /\ audit'[k].shiftId = invs[i].shiftId
               /\ audit'[k].babyId = invs[i].babyId
               /\ audit'[k].action = "deleted"
               /\ audit'[k].severity = "high"
               /\ audit'[k].findings = scanForPHI(invs[i].after, "")
          /\ invs'[i].ret.status = "blocked"
          /\ Len(invs'[i].ret.findings) = Len(scanForPHI(invs[i].after, ""))
          /\ \A n \in 1..Len(invs'[i].ret.findings) :
               invs'[i].ret.findings[n] = scanForPHI(invs[i].after, "")[n].field
    ]_vars

\* A created document with findings was deleted: the handler has returned
\* "blocked" and the document is gone.
C6_Witness ==
  \E i \in 1..Len(invs) :
    /\ invs[i].kind = "create" /\ invs[i].pc = "done"
    /\ invs[i].ret.status = "blocked"
    /\ Len(invs[i].ret.findings) > 0
    /\ babies[<<invs[i].shiftId, invs[i].babyId>>] = NoDoc
    /\ Len(audit) = 1 /\ audit[1].action = "deleted"
\* C7: when validateBabyDataUpdate finds something in the new value of a
\* change whose prior value was clean, and nothing else has written the
\* document since, its set leaves the document exactly the prior value, and
\* phi_violations holds an entry of action "rollback" and severity "high"
\* for it.
C7_UpdateRolledBack ==
  [][\A i \in 1..Len(invs) :
       (/\ invs[i].kind = "update"
        /\ invs[i].pc # "done" /\ invs'[i].pc = "done"
        /\ babies[<<invs[i].shiftId, invs[i].babyId>>] = invs[i].after
        /\ Len(scanForPHI(invs[i].after, "")) > 0
        /\ Len(scanForPHI(invs[i].before, "")) = 0)
       => /\ babies'[<<invs[i].shiftId, invs[i].babyId>>] = invs[i].before
          /\ invs'[i].ret.status = "rolled_back"
          /\ \E k \in 1..Len(audit') :
               /\ audit'[k].shiftId = invs[i].shiftId
               /\ audit'[k].babyId = invs[i].babyId
               /\ audit'[k].action = "rollback"
               /\ audit'[k].severity = "high"
               /\ audit'[k].findings = scanForPHI(invs[i].after, "")
    ]_vars

\* An update that brought findings into a clean document was rolled back:
\* the handler has returned and the document is the prior value again.
C7_Witness ==
  \E i \in 1..Len(invs) :
    /\ invs[i].kind = "update" /\ invs[i].pc = "done"
    /\ invs[i].ret.status = "rolled_back"
    /\ Len(scanForPHI(invs[i].before, "")) = 0
    /\ babies[<<invs[i].shiftId, invs[i].babyId>>] = invs[i].before
    /\ invs[i].before # invs[i].after
    /\ Len(audit) = 1 /\ audit[1].action = "rollback"

\* C8: validateBabyDataUpdate decides on the new value alone: when the new
\* value has no findings, no step of the invocation writes the document or
\* appends to phi_violations, whether or not the prior value has findings.
C8_CleanUpdateUntouched ==
  [][\A i \in 1..Len(invs) :
       (/\ invs[i].kind = "update"
        /\ invs'[i] # invs[i]
        /\ Len(scanForPHI(invs[i].after, "")) = 0)
       => /\ babies' = babies
          /\ audit' = audit
          /\ invs'[i].audited = 0 /\ invs'[i].acted = 0
          /\ invs'[i].log = <<>>
    ]_vars

\* An update from a value with findings to a clean one was approved, and the
\* document is still the new value.
C8_Witness ==
  \E i \in 1..Len(invs) :
    /\ invs[i].kind = "update" /\ invs[i].pc = "done"
    /\ Len(scanForPHI(invs[i].before, "")) > 0
    /\ Len(scanForPHI(invs[i].after, "")) = 0
    /\ invs[i].ret.status = "approved"
    /\ babies[<<invs[i].shiftId, invs[i].babyId>>] = invs[i].after

\* C9: a handler invocation whose scan finds nothing returns "approved" in
\* one step that leaves every baby document, every shift document and
\* phi_violations as they were and fires no further invocation.
C9_ApprovalHasNoEffect ==
  [][\A i \in 1..Len(invs) :
       (/\ invs'[i] # invs[i]
        /\ Len(scanForPHI(invs[i].after, "")) = 0)
       => /\ babies' = babies
          /\ shifts' = shifts
          /\ audit' = audit
          /\ Len(invs') = Len(invs)
          /\ invs'[i].pc = "done"
          /\ invs'[i].ret = [status |-> "approved"]
    ]_vars

\* A created document without findings was approved and is stored as written.
C9_Witness ==
  \E i \in 1..Len(invs) :
    /\ invs[i].kind = "create" /\ invs[i].pc = "done"
    /\ invs[i].ret = [status |-> "approved"]
    /\ babies[<<invs[i].shiftId, invs[i].babyId>>] = invs[i].after
    /\ audit = <<>>

\* C10: phi_violations is append-only: every step of the handlers, of
\* generateShiftSummary and of the client calls, deleteBaby and deleteShift
\* among them, leaves the entries there were, in place and unchanged.
C10_AuditAppendOnly ==
  [][/\ Len(audit') >= Len(audit)
     /\ \A k \in 1..Len(audit) : audit'[k] = audit[k]
    ]_vars

\* An entry has outlived its document: deleteShift has deleted the shift and
\* its babies, and the entry is still in phi_violations.
C10_Witness ==
  \E k \in 1..Len(audit) :
    /\ ds.pc = "done"
    /\ shifts[audit[k].shiftId] = NoDoc
    /\ babies[<<audit[k].shiftId, audit[k].babyId>>] = NoDoc
\* C11: the corrective write is idempotent under redelivery: when an
\* invocation performs its delete or set while the document is as an earlier
\* invocation of the same event left it, the write changes no document and
\* fires no trigger.
C11_CorrectiveIdempotent ==
  [][\A i \in 1..Len(invs) :
       (/\ invs[i].pc = "audited" /\ invs'[i].pc = "done"
        /\ \E j \in 1..Len(invs) :
             /\ j # i /\ invs[j].event = invs[i].event
             /\ invs[j].pc = "done" /\ invs[j].acted = 1
             /\ babies[<<invs[i].shiftId, invs[i].babyId>>] = invs[j].wrote)
       => /\ babies' = babies
          /\ shifts' = shifts
          /\ Len(invs') = Len(invs)
    ]_vars

\* Two invocations of one update event have both restored the prior value,
\* and the document is that value.
C11_Witness ==
  \E i, j \in 1..Len(invs) :
    /\ i # j /\ invs[i].event = invs[j].event /\ invs[i].kind = "update"
    /\ invs[i].pc = "done" /\ invs[i].acted = 1
    /\ invs[j].pc = "done" /\ invs[j].acted = 1
    /\ invs[i].wrote = invs[i].before /\ invs[j].wrote = invs[i].before
    /\ babies[<<invs[i].shiftId, invs[i].babyId>>] = invs[i].before

\* C12: the audit add is not deduplicated: every invocation that finds
\* something and whose add the store accepts has an entry of its own in
\* phi_violations, so k invocations of one event leave k entries for it.
C12_AuditNotDeduplicated ==
  \A i \in 1..Len(invs) :
    invs[i].audited = 1 =>
      /\ invs[i].entry \in 1..Len(audit)
      /\ audit[invs[i].entry].shiftId = invs[i].shiftId
      /\ audit[invs[i].entry].babyId = invs[i].babyId
      /\ audit[invs[i].entry].findings = findingsOf(invs[i].after)
      /\ audit[invs[i].entry].action =
           (IF invs[i].kind = "create" THEN "deleted" ELSE "rollback")
      /\ \A j \in 1..Len(invs) :
           (j # i /\ invs[j].audited = 1) => invs[j].entry # invs[i].entry

\* Two invocations of one event have returned, and phi_violations holds two
\* entries for it, alike but for their timestamps.
C12_Witness ==
  \E i, j \in 1..Len(invs) :
    /\ i # j /\ invs[i].event = invs[j].event
    /\ invs[i].pc = "done" /\ invs[j].pc = "done"
    /\ invs[i].audited = 1 /\ invs[j].audited = 1
    /\ Len(audit) = 2
    /\ audit[1].findings = audit[2].findings
    /\ audit[1].babyId = audit[2].babyId
    /\ audit[1].action = audit[2].action
    /\ audit[1].timestamp # audit[2].timestamp
\* C13: a summary request by an authenticated caller with appId and shiftId
\* for a shift that does not exist under that caller fails with an error of
\* code "not-found" and writes nothing.
C13_NotFound ==
  (sm.pc = "returned" /\ sm.threw = "not-found") =>
    (sm.ret.code = "not-found" /\ sm.writes = 0)

C15_InternalHidesCause ==
  (sm.pc = "returned" /\ sm.threw \in StoreErrors) =>
    /\ sm.ret.code = "internal"
    /\ \A message \in StoreErrors : sm.ret = caught(message)
\* C16: a summary request that succeeds returns as babyCount the number of
\* baby documents read (the number stored, when none was written since) and
\* a text with one "--- Baby:" section for each; its step puts the text and
\* a generation timestamp on the shift document and leaves the other fields
\* of the shift and every baby document as they were.
C16_SummaryResult ==
  [][(sm.pc = "update" /\ sm'.pc = "returned" /\ sm'.threw = "none") =>
       LET shiftId == Get(sm.data, "shiftId").v
           text == sm'.ret.summary
           header == "--- Baby: "
           sections == {i \in 1..(Len(text) - Len(header) + 1) :
                          SubSeq(text, i, i + Len(header) - 1) = header}
           stored == {b \in BabyIds : babies[<<shiftId, b>>] # NoDoc}
       IN /\ sm'.ret.babyCount = Len(sm.babies)
          /\ Cardinality(sections) = Len(sm.babies)
          /\ (sm.babies = babyList(shiftId, 1) =>
                sm'.ret.babyCount = Cardinality(stored))
          /\ Get(shifts'[shiftId], "cachedSummary") = Str(text)
          /\ Get(shifts'[shiftId], "summaryGeneratedAt").t = "ts"
          /\ \A k \in 1..Len(shifts[shiftId].v) :
               shifts[shiftId].v[k][1] \notin {"cachedSummary", "summaryGeneratedAt"}
               => Get(shifts'[shiftId], shifts[shiftId].v[k][1]) = shifts[shiftId].v[k][2]
          /\ Len(shifts'[shiftId].v) =
               Len(updateDoc(shifts[shiftId],
                     Obj(<< <<"cachedSummary", Null>>,
                            <<"summaryGeneratedAt", Null>> >>)).v)
          /\ babies' = babies
    ]_vars

\* A summary of a shift with two babies has been returned and cached.
C16_Witness ==
  /\ sm.pc = "returned" /\ sm.writes = 1
  /\ sm.ret.babyCount = 2
  /\ Get(shifts["s1"], "cachedSummary") = Str(sm.ret.summary)
  /\ Get(shifts["s1"], "shiftDate") = Str("2025-10-26")
\* C17: the summary cached on a shift document never contains text of a
\* baby document value that has findings (one whose handler has not run
\* yet, or whose handler deletes it or rolls it back).
C17_SummaryOfAcceptedDataOnly ==
  \A s \in ShiftIds :
    (shifts[s] # NoDoc /\ HasKey(shifts[s], "cachedSummary")) =>
      \A text \in {TextNameDob, TextPhone} :
        ~includes(Get(shifts[s], "cachedSummary").v, text)
\* C18: the invocations for different babies work on disjoint documents: a
\* step of an invocation changes no shift document and no baby document but
\* the one of its own path, and the triggers it fires are for that path; so
\* the steps of invocations for different babies commute.
C18_HandlersDisjoint ==
  [][\A i \in 1..Len(invs) :
       invs'[i] # invs[i] =>
         /\ shifts' = shifts
         /\ \A p \in BabyPaths :
              p # <<invs[i].shiftId, invs[i].babyId>> => babies'[p] = babies[p]
         /\ \A j \in (Len(invs) + 1)..Len(invs') :
              /\ invs'[j].shiftId = invs[i].shiftId
              /\ invs'[j].babyId = invs[i].babyId
    ]_vars

\* Invocations for two babies have both corrected their documents: one is
\* rolled back to its prior value, the other is deleted.
C18_Witness ==
  \E i, j \in 1..Len(invs) :
    /\ invs[i].babyId # invs[j].babyId
    /\ invs[i].pc = "done" /\ invs[i].acted = 1 /\ invs[i].kind = "update"
    /\ invs[j].pc = "done" /\ invs[j].acted = 1 /\ invs[j].kind = "create"
    /\ babies[<<invs[i].shiftId, invs[i].babyId>>] = invs[i].before
    /\ babies[<<invs[j].shiftId, invs[j].babyId>>] = NoDoc

birthDateAndKeptName(findings, name) ==
  \E n \in 1..Len(findings) :
    /\ findings[n].field = "reportSheet.maternalHistory"
    /\ \E k \in 1..Len(findings[n].violations) :
         findings[n].violations[k].type = "dob"
    /\ keepFullName(name) <=>
         \E k \in 1..Len(findings[n].violations) :
           findings[n].violations[k].type = "fullName"
    /\ keepFullName(name) => Len(findings[n].violations) >= 2

RECURSIVE reachableStrings(_, _)
reachableStrings(value, path) ==
  CASE value.t = "str" -> << <<path, value>> >>
    [] value.t = "obj" ->
         Flatten([k \in 1..Len(value.v) |->
           IF value.v[k][1] \in {"createdAt", "updatedAt"} THEN <<>>
           ELSE reachableStrings(value.v[k][2],
                  IF path # "" THEN path \o "." \o value.v[k][1]
                  ELSE value.v[k][1])])
    [] value.t = "arr" ->
         Flatten([n \in 1..Len(value.v) |->
           reachableStrings(value.v[n],
                            path \o "[" \o ToString(n - 1) \o "]")])
    [] OTHER -> <<>>

\* One finding for each reachable string in which the detectors find
\* something, under the path of that string.
findingsAt(strings) ==
  Flatten([k \in 1..Len(strings) |-> findingOf(strings[k][2], strings[k][1])])

C21_OnlyTimestampsExcluded ==
  scan.pc = "returned" =>
    LET expected == findingsAt(reachableStrings(scan.data, ""))
    IN /\ Len(scan.findings) = Len(expected)
       /\ \A n \in 1..Len(expected) :
            scan.findings[n].violations = expected[n].violations

\* A name-like match carries an allow-listed marker: the words room, blood
\* and heart anywhere in the match, in either case, or the prefix "baby ".
hasMarker(m) ==
  \/ \E w \in {"room", "blood", "heart"} : includes(toLowerCase(m), w)
  \/ startsWith(toLowerCase(m), "baby ")

\* The violations of the given type in what detectPHI returned.
ofType(ret, type) ==
  IF ret.t = "null" THEN <<>> ELSE SelectSeq(ret.v, LAMBDA v : v.type = type)

\* C22: only the matches of the name-like detector are filtered: it reports
\* nothing when every match carries a marker and otherwise one violation
\* whose count is the number of matches without a marker; every other
\* detector reports one violation whenever it matches, whose count is the
\* number of all its matches.
C22_OnlyNamesFiltered ==
  scan.pc = "loaded" =>
    \A c \in 1..Len(scan.calls) :
      \A k \in 1..Len(PHI_PATTERNS) :
        LET type == PHI_PATTERNS[k][1]
            matches == match(scan.calls[c].text, PHI_PATTERNS[k][2])
            counted == IF type = "fullName" THEN SelectSeq(matches, LAMBDA m : ~hasMarker(m))
                       ELSE matches
            reported == ofType(scan.calls[c].ret, type)
        IN IF Len(counted) = 0 THEN Len(reported) = 0
           ELSE Len(reported) = 1 /\ reported[1].count = Len(counted)

\* detectPHI has returned for a text with a dropped and a kept name, for one
\* whose only name is dropped, and for an address that holds a marker.
C22_Witness ==
  /\ scan.pc = "loaded"
  /\ \E c \in 1..Len(scan.calls) :
       /\ scan.calls[c].text = "Room Jane and Amy Jones"
       /\ ofType(scan.calls[c].ret, "fullName")[1].count = 1
  /\ \E c \in 1..Len(scan.calls) :
       /\ scan.calls[c].text = "12 Heart Street"
       /\ Len(ofType(scan.calls[c].ret, "fullName")) = 0
       /\ ofType(scan.calls[c].ret, "address")[1].count = 1

\* C23: every sample that detectPHI returns, and with it every sample of a
\* finding and of an audit entry, is at most 20 characters long.
C23_SampleAtMostTwenty ==
  scan.pc = "loaded" =>
    \A c \in 1..Len(scan.calls) :
      scan.calls[c].ret.t # "null" =>
        \A n \in 1..Len(scan.calls[c].ret.v) :
          Len(scan.calls[c].ret.v[n].sample) <= 20

\* C24: two calls of detectPHI on the same text return the same violations
\* in the same order, whatever was scanned in between: the patterns carry
\* nothing from one call to the next.
C24_ScanDeterministic ==
  scan.pc = "loaded" =>
    /\ scan.lastIndex = ZeroIndex
    /\ \A c, d \in 1..Len(scan.calls) :
         scan.calls[c].text = scan.calls[d].text
           => scan.calls[c].ret = scan.calls[d].ret

\* detectPHI has been called twice on a text with a name and a birth date,
\* and returned both violations each time.
C24_Witness ==
  /\ scan.pc = "loaded"
  /\ Len(scan.calls) = 2
  /\ scan.calls[1].text = TextNameDob /\ scan.calls[2].text = TextNameDob
  /\ scan.calls[1].ret.t = "arr" /\ Len(scan.calls[1].ret.v) = 2
  /\ scan.calls[2].ret = scan.calls[1].ret

\* C26: a rollback does not discard a later accepted write: when
\* validateBabyDataUpdate restores the value before its update while the
\* record holds a later value without findings, the record keeps that value.
C26_RollbackKeepsLaterWrite ==
  [][\A i \in 1..Len(invs) :
       (/\ invs[i].kind = "update"
        /\ invs[i].pc = "audited" /\ invs'[i].pc = "done"
        /\ babies[<<invs[i].shiftId, invs[i].babyId>>] # NoDoc
        /\ babies[<<invs[i].shiftId, invs[i].babyId>>] # invs[i].after
        /\ babies[<<invs[i].shiftId, invs[i].babyId>>] # invs[i].before
        /\ scanForPHI(babies[<<invs[i].shiftId, invs[i].babyId>>], "") = <<>>)
       => babies'[<<invs[i].shiftId, invs[i].babyId>>]
            = babies[<<invs[i].shiftId, invs[i].babyId>>]
    ]_vars

\* C27: a deleted record stays deleted: a baby document comes into existence
\* only by a client's addBaby, never by a handler's rollback of an update
\* committed before the deletion.
C27_DeletedStaysDeleted ==
  [][\A p \in BabyPaths :
       (babies[p] = NoDoc /\ babies'[p] # NoDoc) => nextId' = nextId + 1
    ]_vars

\* C28: validateBabyData deletes a record only when the value stored at the
\* time of the delete has findings.
C28_DeletesOnlyFindings ==
  [][\A i \in 1..Len(invs) :
       (/\ invs[i].kind = "create"
        /\ invs[i].pc = "audited" /\ invs'[i].pc = "done"
        /\ babies[<<invs[i].shiftId, invs[i].babyId>>] # NoDoc
        /\ babies'[<<invs[i].shiftId, invs[i].babyId>>] = NoDoc)
       => scanForPHI(babies[<<invs[i].shiftId, invs[i].babyId>>], "") # <<>>
    ]_vars

\* C29: deleteShift removes a shift with all of its babies or nothing: when
\* its batch commits, no baby document is left under the shift, one added
\* between the read of the babies and the commit included; when the batch
\* fails, the shift and the babies are as they were.
C29_DeleteShiftAtomic ==
  [][(ds.pc = "read" /\ ds'.pc \in {"done", "failed"})
       => IF ds'.pc = "done"
          THEN /\ shifts'[ds.shiftId] = NoDoc
               /\ \A b \in BabyIds : babies'[<<ds.shiftId, b>>] = NoDoc
          ELSE shifts' = shifts /\ babies' = babies
    ]_vars

\* C30: a call of updateTouchTimeLog with the id that getTouchTimeLogs
\* attached to an entry merges the new data into that entry of the stored
\* touchTimeLogs and leaves every other entry as stored.
C30_UpdatesOnlyTargetedEntry ==
  [][Len(tt'.calls) > Len(tt.calls)
       => LET call == tt'.calls[Len(tt'.calls)]
              stored == touchTimeLogsOf(babies[call.path])
              after == touchTimeLogsOf(babies'[call.path])
              target == CHOOSE n \in 1..Len(tt.shown) :
                          Get(tt.shown[n], "id") = call.logIndex
          IN /\ Len(after) = Len(stored)
             /\ \A k \in 1..Len(stored) :
                  after[k] = IF Put(stored[k], "id", call.logIndex) = tt.shown[target]
                             THEN updateDoc(stored[k], call.logData)
                             ELSE stored[k]
    ]_vars

\* C25: under fair scheduling, after the client's writes a state is reached
\* from which no handler invocation is pending and no step appends to the
\* audit trail.
C25_EnforcementQuiesces ==
  /\ <>[](stillRunning(invs) = <<>>)
  /\ <>[][Len(audit') <= Len(audit)]_vars

====
